---- MODULE Spec2Model ----
(***************************************************************************)
(* A model of the fixed-width arbitrary-precision integer `ApInt`:         *)
(* its digit storage, the arithmetic, shift and bit operations on it, and  *)
(* the `Radix` constructor.                                                *)
(*                                                                         *)
(* The digit width (digit::BITS, 64 in the crate) is scaled down to BITS   *)
(* so that every value of every modelled width can be enumerated; `u64`    *)
(* is the unsigned BITS-bit word and `i64` the signed BITS-bit word.       *)
(* A value is a record [len, digits] with digits least significant first.  *)
(***************************************************************************)
EXTENDS Integers, Sequences, FiniteSets, TLC

\* Width of one digit in bits (scaled digit::BITS).
BITS == 4

\* Largest bit width of a modelled value.
MaxWidth == 9

\* Largest shift amount / bit position handed to an operation is MaxWidth + ExtraAmount.
ExtraAmount == 1

\* Largest u8 value handed to Radix::new.
MaxU8 == 255

RECURSIVE Pow2(_)
Pow2(n) == IF n = 0 THEN 1 ELSE 2 * Pow2(n - 1)

\* Number of values of one digit: 2^BITS.
Base == Pow2(BITS)

Widths == 1 .. MaxWidth

-----------------------------------------------------------------------------
(* BitWidth and Storage                                                    *)

required_blocks(w) == (w + BITS - 1) \div BITS

excess_bits(w) == w % BITS

storage(w) == IF w <= BITS THEN "Inl" ELSE "Ext"

-----------------------------------------------------------------------------
(* Digit primitives                                                        *)

\* Bit `pos` of the digit d.
digit_get(d, pos) == (d \div Pow2(pos)) % 2

digit_set(d, pos) == IF digit_get(d, pos) = 1 THEN d ELSE d + Pow2(pos)

digit_unset(d, pos) == IF digit_get(d, pos) = 1 THEN d - Pow2(pos) ELSE d

digit_flip(d, pos) == IF digit_get(d, pos) = 1 THEN d - Pow2(pos) ELSE d + Pow2(pos)

\* Zeroes every bit at a position >= n.
retain_last_n(d, n) == d % Pow2(n)

not_inplace(d) == (Base - 1) - d

\* The digit read as a signed word (`as i64`).
as_signed(d) == IF d >= Pow2(BITS - 1) THEN d - Base ELSE d

\* A signed word read back as a digit (`as u64`).
as_unsigned(i) == ((i % Base) + Base) % Base

\* Copies bit (w - 1) of the digit into every higher bit.
sign_extend_from(d, w) ==
    LET low == d % Pow2(w)
    IN  IF digit_get(low, w - 1) = 1 THEN low + (Base - Pow2(w)) ELSE low

\* Low BITS bits of a + b + carry, and the carry out.
carry_add(a, b, carry) ==
    [digit |-> (a + b + carry) % Base, carry |-> (a + b + carry) \div Base]

\* Low BITS bits of a - b - borrow, and the borrow out.
borrow_sub(a, b, borrow) ==
    [digit  |-> (a - b - borrow + 2 * Base) % Base,
     borrow |-> IF a - b - borrow < 0 THEN 1 ELSE 0]

Abs(i) == IF i < 0 THEN -i ELSE i

\* i64::wrapping_div: quotient rounded toward zero, wrapped to the word.
wrapping_div_signed(a, b) ==
    LET q == Abs(a) \div Abs(b)
        s == IF (a < 0) = (b < 0) THEN q ELSE -q
    IN  as_signed(as_unsigned(s))

\* i64::wrapping_rem: remainder with the sign of the dividend.
wrapping_rem_signed(a, b) ==
    LET r == Abs(a) % Abs(b)
    IN  IF a < 0 THEN -r ELSE r

-----------------------------------------------------------------------------
(* Values                                                                  *)

\* The unsigned number a digit sequence denotes (least significant first).
RECURSIVE Val(_)
Val(ds) == IF ds = << >> THEN 0 ELSE Head(ds) + Base * Val(Tail(ds))

\* The digit sequence of n digits denoting v.
RECURSIVE DigitsOf(_, _)
DigitsOf(v, n) == IF n = 0 THEN << >> ELSE <<v % Base>> \o DigitsOf(v \div Base, n - 1)

\* The value of width w whose digits denote v (v < 2^w).
ApIntOf(w, v) == [len |-> w, digits |-> DigitsOf(v, required_blocks(w))]

zero(w) == ApIntOf(w, 0)

one(w) == ApIntOf(w, 1)

all_set(w) == ApIntOf(w, Pow2(w) - 1)

\* Placeholder for "no value".
NoApInt == [len |-> 0, digits |-> << >>]

is_zero(x) == \A i \in 1 .. Len(x.digits) : x.digits[i] = 0

most_significant_digit(x) == x.digits[Len(x.digits)]

\* Restores the unused-bits invariant on the most significant digit.
clear_unused_bits(x) ==
    IF excess_bits(x.len) = 0 THEN x
    ELSE [x EXCEPT !.digits[Len(x.digits)] =
              retain_last_n(x.digits[Len(x.digits)], excess_bits(x.len))]

-----------------------------------------------------------------------------
(* Results                                                                 *)

OkResult ==
    [kind |-> "Ok", n1 |-> 0, n2 |-> 0, divop |-> "", dividend |-> NoApInt]

NoResult ==
    [kind |-> "None", n1 |-> 0, n2 |-> 0, divop |-> "", dividend |-> NoApInt]

\* The call aborted the program (panic).
Panic ==
    [kind |-> "Panic", n1 |-> 0, n2 |-> 0, divop |-> "", dividend |-> NoApInt]

unmatching_bitwidths(l, r) ==
    [kind |-> "UnmatchingBitWidths", n1 |-> l, n2 |-> r, divop |-> "", dividend |-> NoApInt]

division_by_zero(divop, dividend) ==
    [kind |-> "DivisionByZero", n1 |-> 0, n2 |-> 0, divop |-> divop, dividend |-> dividend]

invalid_shift_amount(amount, width) ==
    [kind |-> "InvalidShiftAmount", n1 |-> amount, n2 |-> width, divop |-> "", dividend |-> NoApInt]

invalid_bit_access(pos, width) ==
    [kind |-> "InvalidBitAccess", n1 |-> pos, n2 |-> width, divop |-> "", dividend |-> NoApInt]

invalid_radix(r) ==
    [kind |-> "InvalidRadix", n1 |-> r, n2 |-> 0, divop |-> "", dividend |-> NoApInt]

\* What a call leaves behind: the receiver and the returned Result.
Outcome(x, res) == [self |-> x, result |-> res]

-----------------------------------------------------------------------------
(* Paired access for binary operations                                     *)

\* Enforces equal widths, then classifies the pair as inline or external.
zip_model_mut(s, r) ==
    IF s.len # r.len
    THEN [tag |-> "Err", error |-> unmatching_bitwidths(s.len, r.len)]
    ELSE [tag |-> storage(s.len), error |-> NoResult]

\* The receiver with its single inline digit replaced.
WithInl(s, d) == [s EXCEPT !.digits = <<d>>]

\* The receiver with its digit slice replaced.
WithExt(s, ds) == [s EXCEPT !.digits = ds]

-----------------------------------------------------------------------------
(* Arithmetic                                                              *)

\* The carry loop with the carry register reset for every digit.
RECURSIVE ext_carry_add_dropped(_, _, _)
ext_carry_add_dropped(l, r, carry) ==
    IF l = << >> \/ r = << >> THEN l
    ELSE LET ca == carry_add(Head(l), Head(r), carry)
         IN  <<ca.digit>> \o ext_carry_add_dropped(Tail(l), Tail(r), 0)

\* for (l, r) in lhs.zip(rhs) { *l = carry_add(*l, *r, &mut carry) }
RECURSIVE ext_carry_add(_, _, _)
ext_carry_add(l, r, carry) ==
    IF l = << >> \/ r = << >> THEN l
    ELSE LET ca == carry_add(Head(l), Head(r), carry)
         IN  <<ca.digit>> \o ext_carry_add(Tail(l), Tail(r), ca.carry)

\* The borrow loop with the borrow register reset for every digit.
RECURSIVE ext_borrow_sub_dropped(_, _, _)
ext_borrow_sub_dropped(l, r, borrow) ==
    IF l = << >> \/ r = << >> THEN l
    ELSE LET bs == borrow_sub(Head(l), Head(r), borrow)
         IN  <<bs.digit>> \o ext_borrow_sub_dropped(Tail(l), Tail(r), 0)

\* for (l, r) in lhs.zip(rhs) { *l = borrow_sub(*l, *r, &mut borrow) }
RECURSIVE ext_borrow_sub(_, _, _)
ext_borrow_sub(l, r, borrow) ==
    IF l = << >> \/ r = << >> THEN l
    ELSE LET bs == borrow_sub(Head(l), Head(r), borrow)
         IN  <<bs.digit>> \o ext_borrow_sub(Tail(l), Tail(r), bs.borrow)

checked_add_assign(s, r) ==
    LET z == zip_model_mut(s, r)
    IN  CASE z.tag = "Err" -> Outcome(s, z.error)
          [] z.tag = "Inl" ->
                Outcome(clear_unused_bits(
                            WithInl(s, (s.digits[1] + r.digits[1]) % Base)), OkResult)
          [] z.tag = "Ext" ->
                Outcome(clear_unused_bits(
                            WithExt(s, ext_carry_add(s.digits, r.digits, 0))), OkResult)

checked_sub_assign(s, r) ==
    LET z == zip_model_mut(s, r)
    IN  CASE z.tag = "Err" -> Outcome(s, z.error)
          [] z.tag = "Inl" ->
                Outcome(clear_unused_bits(
                            WithInl(s, (s.digits[1] - r.digits[1] + Base) % Base)), OkResult)
          [] z.tag = "Ext" ->
                Outcome(clear_unused_bits(
                            WithExt(s, ext_borrow_sub(s.digits, r.digits, 0))), OkResult)

checked_mul_assign(s, r) ==
    LET z == zip_model_mut(s, r)
    IN  CASE z.tag = "Err" -> Outcome(s, z.error)
          [] z.tag = "Inl" ->
                Outcome(clear_unused_bits(
                            WithInl(s, (s.digits[1] * r.digits[1]) % Base)), OkResult)
          [] z.tag = "Ext" -> Outcome(s, Panic)

checked_udiv_assign(s, r) ==
    IF is_zero(r) THEN Outcome(s, division_by_zero("UnsignedDiv", s))
    ELSE LET z == zip_model_mut(s, r)
         IN  CASE z.tag = "Err" -> Outcome(s, z.error)
               [] z.tag = "Inl" ->
                     Outcome(WithInl(s, s.digits[1] \div r.digits[1]), OkResult)
               [] z.tag = "Ext" -> Outcome(s, Panic)

checked_sdiv_assign(s, r) ==
    IF is_zero(r) THEN Outcome(s, division_by_zero("SignedDiv", s))
    ELSE LET z == zip_model_mut(s, r)
         IN  CASE z.tag = "Err" -> Outcome(s, z.error)
               [] z.tag = "Inl" ->
                     LET lval == as_signed(sign_extend_from(s.digits[1], s.len))
                         rval == as_signed(sign_extend_from(r.digits[1], s.len))
                     IN  Outcome(clear_unused_bits(
                             WithInl(s, as_unsigned(wrapping_div_signed(lval, rval)))),
                                 OkResult)
               [] z.tag = "Ext" -> Outcome(s, Panic)

checked_urem_assign(s, r) ==
    IF is_zero(r) THEN Outcome(s, division_by_zero("UnsignedRem", s))
    ELSE LET z == zip_model_mut(s, r)
         IN  CASE z.tag = "Err" -> Outcome(s, z.error)
               [] z.tag = "Inl" ->
                     Outcome(WithInl(s, s.digits[1] % r.digits[1]), OkResult)
               [] z.tag = "Ext" -> Outcome(s, Panic)

\* checked_srem_assign reporting the DivOp of the signed division.
checked_srem_assign_divkind(s, r) ==
    IF is_zero(r) THEN Outcome(s, division_by_zero("SignedDiv", s))
    ELSE LET z == zip_model_mut(s, r)
         IN  CASE z.tag = "Err" -> Outcome(s, z.error)
               [] z.tag = "Inl" ->
                     LET lval == as_signed(sign_extend_from(s.digits[1], s.len))
                         rval == as_signed(sign_extend_from(r.digits[1], s.len))
                     IN  Outcome(clear_unused_bits(
                             WithInl(s, as_unsigned(wrapping_rem_signed(lval, rval)))),
                                 OkResult)
               [] z.tag = "Ext" -> Outcome(s, Panic)

checked_srem_assign(s, r) ==
    IF is_zero(r) THEN Outcome(s, division_by_zero("SignedRem", s))
    ELSE LET z == zip_model_mut(s, r)
         IN  CASE z.tag = "Err" -> Outcome(s, z.error)
               [] z.tag = "Inl" ->
                     LET lval == as_signed(sign_extend_from(s.digits[1], s.len))
                         rval == as_signed(sign_extend_from(r.digits[1], s.len))
                     IN  Outcome(clear_unused_bits(
                             WithInl(s, as_unsigned(wrapping_rem_signed(lval, rval)))),
                                 OkResult)
               [] z.tag = "Ext" -> Outcome(s, Panic)

-----------------------------------------------------------------------------
(* Bit operations of the inline value (SmallAPIntMut)                      *)

\* Ok when n addresses a bit of the value, InvalidBitAccess otherwise.
verify_bit_access(s, n) ==
    IF n < s.len THEN OkResult ELSE invalid_bit_access(n, s.len)

small_set(s, n) ==
    IF verify_bit_access(s, n).kind # "Ok" THEN Outcome(s, verify_bit_access(s, n))
    ELSE Outcome(WithInl(s, digit_set(s.digits[1], n)), OkResult)

small_unset(s, n) ==
    IF verify_bit_access(s, n).kind # "Ok" THEN Outcome(s, verify_bit_access(s, n))
    ELSE Outcome(WithInl(s, digit_unset(s.digits[1], n)), OkResult)

\* flip without the bit-access check.
small_flip_unchecked(s, n) ==
    Outcome(WithInl(s, digit_flip(s.digits[1], n)), OkResult)

small_flip(s, n) ==
    IF verify_bit_access(s, n).kind # "Ok" THEN Outcome(s, verify_bit_access(s, n))
    ELSE Outcome(WithInl(s, digit_flip(s.digits[1], n)), OkResult)

\* Ok(bit) and Ok(bool): the returned bit or truth value is kept in n1.
OkBit(b) == [OkResult EXCEPT !.n1 = b]

small_get(s, n) ==
    IF verify_bit_access(s, n).kind # "Ok" THEN Outcome(s, verify_bit_access(s, n))
    ELSE Outcome(s, OkBit(digit_get(s.digits[1], n)))

\* Ok when both operands have the same width, UnmatchingBitWidths otherwise.
verify_common_bitwidth(s, r) ==
    IF s.len = r.len THEN OkResult ELSE unmatching_bitwidths(s.len, r.len)

small_ult(s, r) ==
    IF verify_common_bitwidth(s, r).kind # "Ok"
    THEN Outcome(s, verify_common_bitwidth(s, r))
    ELSE Outcome(s, OkBit(IF s.digits[1] < r.digits[1] THEN 1 ELSE 0))

\* slt comparing the digits as signed words without moving the sign bit up.
small_slt_uninflated(s, r) ==
    IF verify_common_bitwidth(s, r).kind # "Ok"
    THEN Outcome(s, verify_common_bitwidth(s, r))
    ELSE Outcome(s, OkBit(IF as_signed(s.digits[1]) < as_signed(r.digits[1])
                          THEN 1 ELSE 0))

\* Both digits are shifted left until the sign bit of the width is the sign bit
\* of the word, then compared as i64.
small_slt(s, r) ==
    IF verify_common_bitwidth(s, r).kind # "Ok"
    THEN Outcome(s, verify_common_bitwidth(s, r))
    ELSE LET infate_abs == BITS - s.len
             left  == as_signed((s.digits[1] * Pow2(infate_abs)) % Base)
             right == as_signed((r.digits[1] * Pow2(infate_abs)) % Base)
         IN  Outcome(s, OkBit(IF left < right THEN 1 ELSE 0))

small_set_all(s) ==
    Outcome(WithInl(s, retain_last_n(Base - 1, s.len)), OkResult)

small_flip_all(s) ==
    Outcome(WithInl(s, retain_last_n(not_inplace(s.digits[1]), s.len)), OkResult)

bitnot_inplace(s) ==
    WithInl(s, retain_last_n(not_inplace(s.digits[1]), s.len))

\* The bitwise binary operations combine the two digits without comparing widths.
RECURSIVE digit_and(_, _)
digit_and(a, b) ==
    IF a = 0 \/ b = 0 THEN 0
    ELSE (a % 2) * (b % 2) + 2 * digit_and(a \div 2, b \div 2)

digit_or(a, b) == a + b - digit_and(a, b)

digit_xor(a, b) == a + b - 2 * digit_and(a, b)

bitand_inplace(s, r) == Outcome(WithInl(s, digit_and(s.digits[1], r.digits[1])), OkResult)

bitor_inplace(s, r) == Outcome(WithInl(s, digit_or(s.digits[1], r.digits[1])), OkResult)

bitxor_inplace(s, r) == Outcome(WithInl(s, digit_xor(s.digits[1], r.digits[1])), OkResult)

-----------------------------------------------------------------------------
(* Bitwise not and negation of any value                                   *)

\* Inverts every digit, then clears the unused bits.
bitnot(x) ==
    IF storage(x.len) = "Inl" THEN bitnot_inplace(x)
    ELSE clear_unused_bits(
             WithExt(x, [i \in 1 .. Len(x.digits) |-> not_inplace(x.digits[i])]))

\* negate stopping after the bitwise not: the increment is missing.
negate_no_increment(s) == Outcome(bitnot(s), OkResult)

negate(s) ==
    LET inverted == bitnot(s)
        added    == checked_add_assign(inverted, one(s.len))
    IN  IF added.result.kind # "Ok" THEN Outcome(inverted, Panic)
        ELSE Outcome(clear_unused_bits(added.self), OkResult)

-----------------------------------------------------------------------------
(* Shifts                                                                  *)

digit_steps(amount) == amount \div BITS

bit_steps(amount) == amount % BITS

\* Ok when the amount is below the width, InvalidShiftAmount otherwise.
verify_shift_amount(s, amount) ==
    IF amount < s.len THEN OkResult ELSE invalid_shift_amount(amount, s.len)

\* A rotation that forgets the elements before index mid.
rotate_dropping(ds, mid) == SubSeq(ds, mid + 1, Len(ds))

\* slice::rotate(mid): the element at index mid becomes the first one.
rotate(ds, mid) ==
    [i \in 1 .. Len(ds) |-> ds[((i - 1 + mid) % Len(ds)) + 1]]

\* The in-digit pass of the left shift over digits[from..], carry entering as `carry`.
RECURSIVE shl_bit_pass(_, _, _, _)
shl_bit_pass(ds, from, steps, carry) ==
    IF from > Len(ds) THEN ds
    ELSE LET repr      == ds[from]
             new_carry == repr \div Pow2(BITS - steps)
             elem      == ((repr * Pow2(steps)) % Base) + carry
         IN  shl_bit_pass([ds EXCEPT ![from] = elem], from + 1, steps, new_carry)

checked_shl_assign(s, amount) ==
    IF verify_shift_amount(s, amount).kind # "Ok"
    THEN Outcome(s, verify_shift_amount(s, amount))
    ELSE IF storage(s.len) = "Inl"
    THEN Outcome(WithInl(s, (s.digits[1] * Pow2(amount)) % Base), OkResult)
    ELSE LET dsteps  == digit_steps(amount)
             bsteps  == bit_steps(amount)
             rotated == IF dsteps # 0
                        THEN LET rot == rotate(s.digits, Len(s.digits) - dsteps)
                             IN  [i \in 1 .. Len(rot) |-> IF i <= dsteps THEN 0 ELSE rot[i]]
                        ELSE s.digits
             shifted == IF bsteps # 0
                        THEN shl_bit_pass(rotated, dsteps + 1, bsteps, 0)
                        ELSE rotated
         IN  Outcome(WithExt(s, shifted), OkResult)

\* A right shift that treats an amount beyond the width as shifting every bit
\* out before it reports the amount.
checked_lshr_assign_clearing(s, amount) ==
    IF verify_shift_amount(s, amount).kind # "Ok"
    THEN Outcome(zero(s.len), verify_shift_amount(s, amount))
    ELSE IF storage(s.len) = "Inl"
    THEN Outcome(WithInl(s, s.digits[1] \div Pow2(amount)), OkResult)
    ELSE Outcome(s, Panic)

checked_lshr_assign(s, amount) ==
    IF verify_shift_amount(s, amount).kind # "Ok"
    THEN Outcome(s, verify_shift_amount(s, amount))
    ELSE IF storage(s.len) = "Inl"
    THEN Outcome(WithInl(s, s.digits[1] \div Pow2(amount)), OkResult)
    ELSE Outcome(s, Panic)

checked_ashr_assign(s, amount) ==
    IF verify_shift_amount(s, amount).kind # "Ok"
    THEN Outcome(s, verify_shift_amount(s, amount))
    ELSE IF storage(s.len) = "Inl"
    THEN LET signed  == as_signed(s.digits[1])
             shifted == signed \div Pow2(amount)
         IN  Outcome(WithInl(s, as_unsigned(shifted)), OkResult)
    ELSE Outcome(s, Panic)

-----------------------------------------------------------------------------
(* Radix                                                                   *)

RadixMIN == 2

RadixMAX == 36

\* Radix::new: Ok(Radix(radix)) or InvalidRadix(radix).
radix_new(r) ==
    IF ~(RadixMIN <= r /\ r >= RadixMAX) THEN invalid_radix(r)
    ELSE [OkResult EXCEPT !.n1 = r]

\* impl From<u8> for Radix: Radix::new(radix).unwrap().
radix_from(r) ==
    IF radix_new(r).kind = "Ok" THEN radix_new(r) ELSE Panic

\* Radix::is_valid_byte: the digit value is below the radix.
is_valid_byte(r, byte) == byte < r

\* Radix::is_power_of_two on the u8 representation.
is_power_of_two(r) == \E p \in 0 .. 7 : r = Pow2(p)

\* Radix::bits_per_digit: the position of the last set bit, minus one.
bits_per_digit(r) == CHOOSE p \in 0 .. 7 : Pow2(p) <= r /\ r < Pow2(p + 1)

\* Radix::exact_bits_per_digit: Some(bits) for a power of two, None (0) otherwise.
exact_bits_per_digit(r) == IF is_power_of_two(r) THEN bits_per_digit(r) ELSE 0

RECURSIVE Pow(_, _)
Pow(b, e) == IF e = 0 THEN 1 ELSE b * Pow(b, e - 1)

\* Radix::get_radix_base: the largest power of the radix fitting in a Digit,
\* and its exponent.
get_radix_base(r) ==
    LET power == CHOOSE p \in 0 .. BITS : Pow(r, p) < Base /\ Pow(r, p + 1) >= Base
    IN  [base |-> Pow(r, power), power |-> power]

-----------------------------------------------------------------------------
(* Serialization: strings are sequences of bytes                           *)

ByteZero == 48
ByteNine == 57
ByteLowerA == 97
ByteLowerZ == 122
ByteUpperA == 65
ByteUpperZ == 90
ByteUnderscore == 95

\* Fixed-point logarithms: entry r - 2 is ceil(log2(r) * 2^13).
LB_2_36_I3F13 ==
    <<8192, 12985, 16384, 19022, 21177, 22998, 24576, 25969, 27214, 28340, 29369,
      30315, 31190, 32006, 32768, 33485, 34161, 34800, 35406, 35982, 36532,
      37058, 37561, 38043, 38507, 38953, 39382, 39797, 40198, 40585, 40960,
      41324, 41677, 42020, 42353>>

\* The bit estimate without the one added to the length.
bit_estimate_no_plus_one(r, len) ==
    (LB_2_36_I3F13[r - 2 + 1] * len) \div Pow2(13)

\* The number of bits from_radix_digits pre-allocates for len digits of radix r:
\* (LB_2_36_I3F13[radix - 2] * (v.len() + 1)) >> 13.
bit_estimate(r, len) ==
    (LB_2_36_I3F13[r - 2 + 1] * (len + 1)) \div Pow2(13)

invalid_string_repr(annotation) ==
    [kind |-> "InvalidStringRepr", n1 |-> 0, n2 |-> 0, divop |-> "",
     dividend |-> NoApInt, annotation |-> annotation]

invalid_char_in_string_repr(pos, ch) ==
    [kind |-> "InvalidCharInStringRepr", n1 |-> pos, n2 |-> ch, divop |-> "",
     dividend |-> NoApInt]

\* What a constructor returns: the Result's kind and, if Ok, the value.
Constructed(x) == [result |-> OkResult, value |-> x]
NotConstructed(res) == [result |-> res, value |-> NoApInt]

\* ApInt::from_iter: one digit per item, the width all of their bits;
\* an empty iterator is an error.
from_iter(data) ==
    IF data = << >> THEN NotConstructed(Panic)
    ELSE Constructed([len |-> Len(data) * BITS, digits |-> data])

\* The digit value of an input byte (the match of the normalising loop).
byte_digit(b) ==
    IF ByteZero <= b /\ b <= ByteNine THEN b - ByteZero
    ELSE IF ByteLowerA <= b /\ b <= ByteLowerZ THEN b - ByteLowerA + 10
    ELSE IF ByteUpperA <= b /\ b <= ByteUpperZ THEN b - ByteUpperA + 10
    ELSE MaxU8

\* The normalising loop from byte i on: the digit values pushed so far in v,
\* or the error of the first byte that is no digit of the radix.
RECURSIVE normalize(_, _, _, _)
normalize(r, input, i, v) ==
    IF i > Len(input) THEN [error |-> NoResult, v |-> v]
    ELSE IF input[i] = ByteUnderscore THEN normalize(r, input, i + 1, v)
    ELSE IF ~is_valid_byte(r, byte_digit(input[i]))
    THEN [error |-> invalid_char_in_string_repr(i - 1, input[i]), v |-> v]
    ELSE normalize(r, input, i + 1, Append(v, byte_digit(input[i])))

\* slice::chunks
RECURSIVE chunks(_, _)
chunks(v, n) ==
    IF Len(v) <= n THEN <<v>>
    ELSE <<SubSeq(v, 1, n)>> \o chunks(SubSeq(v, n + 1, Len(v)), n)

\* chunk.iter().rev().fold(0, |acc, &c| (acc << bits) | c)
RECURSIVE fold_bits(_, _)
fold_bits(chunk, bits) ==
    IF chunk = << >> THEN 0
    ELSE digit_or((fold_bits(Tail(chunk), bits) * Pow2(bits)) % Base, Head(chunk))

from_bitwise_digits(v, bits) ==
    LET radix_digits_per_digit == BITS \div bits
        cs == chunks(v, radix_digits_per_digit)
    IN  from_iter([k \in 1 .. Len(cs) |-> fold_bits(cs[k], bits)])

\* The accumulation loop: d holds dbits bits; a full register is pushed to data.
RECURSIVE inexact_loop(_, _, _, _, _)
inexact_loop(v, bits, d, dbits, data) ==
    IF v = << >> THEN (IF dbits > 0 THEN Append(data, d) ELSE data)
    ELSE LET c  == Head(v)
             d1 == digit_or(d, (c * Pow2(dbits)) % Base)
             n  == dbits + bits
         IN  IF n >= BITS
             THEN inexact_loop(Tail(v), bits, c \div Pow2(bits - (n - BITS)),
                               n - BITS, Append(data, d1))
             ELSE inexact_loop(Tail(v), bits, d1, n, data)

from_inexact_bitwise_digits(v, bits) ==
    from_iter(inexact_loop(v, bits, 0, 0, << >>))

\* chunk.iter().fold(0, |acc, &d| acc * radix + d)
RECURSIVE fold_radix(_, _, _)
fold_radix(ds, r, acc) ==
    IF ds = << >> THEN acc ELSE fold_radix(Tail(ds), r, acc * r + Head(ds))

\* The multiply-accumulate and the addition of each chunk are commented out in
\* the source: a chunk after the head only pushes a zero digit after a non-zero
\* one.
RECURSIVE radix_chunks(_, _)
radix_chunks(cs, data) ==
    IF cs = << >> THEN data
    ELSE radix_chunks(Tail(cs),
                      IF data[Len(data)] # 0 THEN Append(data, 0) ELSE data)

from_radix_digits(v, r) ==
    IF r - 2 + 1 > Len(LB_2_36_I3F13) THEN NotConstructed(Panic)
    ELSE LET power == get_radix_base(r).power
             rem   == Len(v) % power
             i     == IF rem = 0 THEN power ELSE rem
             head  == SubSeq(v, 1, i)
             tail  == SubSeq(v, i + 1, Len(v))
             first == fold_radix(head, r, 0)
             cs    == IF tail = << >> THEN << >> ELSE chunks(tail, power)
         IN  from_iter(radix_chunks(cs, <<first>>))

RECURSIVE reverse(_)
reverse(v) == IF v = << >> THEN v ELSE Append(reverse(Tail(v)), Head(v))

\* from_str_radix once the radix is a Radix: the rejections, the normalising
\* loop and the dispatch on the radix.
from_str_radix_of(r, input) ==
    IF input = << >> THEN NotConstructed(invalid_string_repr("empty"))
    ELSE IF Head(input) = ByteUnderscore
    THEN NotConstructed(invalid_string_repr("starts with an underscore"))
    ELSE IF input[Len(input)] = ByteUnderscore
    THEN NotConstructed(invalid_string_repr("ends with an underscore"))
    ELSE LET n    == normalize(r, input, 1, << >>)
             bits == exact_bits_per_digit(r)
         IN  IF n.error # NoResult THEN NotConstructed(n.error)
             ELSE IF bits # 0
             THEN (IF BITS % bits = 0
                   THEN from_bitwise_digits(reverse(n.v), bits)
                   ELSE from_inexact_bitwise_digits(reverse(n.v), bits))
             ELSE from_radix_digits(n.v, r)

\* ApInt::from_str_radix(radix: u8, input): radix.into() is Radix::from.
from_str_radix(r, input) ==
    IF radix_from(r).kind # "Ok" THEN NotConstructed(radix_from(r))
    ELSE from_str_radix_of(r, input)

\* The character of one radix digit, as core::fmt writes it.
digit_byte(v, upper) ==
    IF v < 10 THEN ByteZero + v
    ELSE IF upper THEN ByteUpperA + v - 10 ELSE ByteLowerA + v - 10

\* "{:b}" / "{:x}" / "{:X}" of a digit: no leading zeros.
RECURSIVE fmt_digit(_, _, _)
fmt_digit(d, bits, upper) ==
    IF d < Pow2(bits) THEN <<digit_byte(d, upper)>>
    ELSE Append(fmt_digit(d \div Pow2(bits), bits, upper),
                digit_byte(d % Pow2(bits), upper))

\* The lower digits written as the first one is: without padding.
fmt_digit_unpadded(d, bits, upper) == fmt_digit(d, bits, upper)

\* "{:064b}" / "{:016x}" / "{:016X}" of a digit: zero-padded to the characters
\* of a whole digit.
fmt_digit_padded(d, bits, upper) ==
    LET body  == fmt_digit(d, bits, upper)
        width == (BITS + bits - 1) \div bits
    IN  [k \in 1 .. width - Len(body) |-> ByteZero] \o body

\* The digits below index i, most significant first, each padded.
RECURSIVE fmt_rest(_, _, _, _)
fmt_rest(ds, i, bits, upper) ==
    IF i = 0 THEN << >>
    ELSE fmt_digit_padded(ds[i], bits, upper) \o fmt_rest(ds, i - 1, bits, upper)

\* What a formatter or a serializer returns: its outcome and the text written.
Written(t) == [result |-> OkResult, text |-> t]
NotWritten(res) == [result |-> res, text |-> << >>]

\* The common body of fmt::Binary, fmt::LowerHex and fmt::UpperHex.
fmt_bitwise(x, bits, upper) ==
    IF is_zero(x) THEN Written(<<ByteZero>>)
    ELSE LET top == CHOOSE i \in 1 .. Len(x.digits) :
                        /\ x.digits[i] # 0
                        /\ \A j \in i + 1 .. Len(x.digits) : x.digits[j] = 0
         IN  Written(fmt_digit(x.digits[top], bits, upper)
                       \o fmt_rest(x.digits, top - 1, bits, upper))

fmt_binary(x) == fmt_bitwise(x, 1, FALSE)

fmt_octal(x) == IF is_zero(x) THEN Written(<<ByteZero>>) ELSE NotWritten(Panic)

fmt_lower_hex(x) == fmt_bitwise(x, 4, FALSE)

fmt_upper_hex(x) == fmt_bitwise(x, 4, TRUE)

\* ApInt::to_string_radix(radix: u8): radix.into() and Radix::from(16) are
\* evaluated first; any radix but 16 is unimplemented; radix 16 writes every
\* digit, most significant first, padded.
to_string_radix(x, r) ==
    IF radix_from(r).kind # "Ok" THEN NotWritten(radix_from(r))
    ELSE IF radix_from(16).kind # "Ok" THEN NotWritten(radix_from(16))
    ELSE IF r # 16 THEN NotWritten(Panic)
    ELSE Written(fmt_rest(x.digits, Len(x.digits), 4, FALSE))

-----------------------------------------------------------------------------
(* State                                                                   *)

VARIABLES
    self,     \* the receiver: an ApInt [len, digits]
    old,      \* the receiver as it was when the last operation was called
    rhs,      \* the right operand of the last operation (NoApInt if none)
    amt,      \* the shift amount, bit position or u8 of the last operation
    op,       \* the last operation called, "none" between calls
    result,   \* what the last operation returned
    prev,     \* the call before the last one, when the caller chained the two
    text,     \* the string of the last call: the input parsed or the output formatted
    radix,    \* the radix of the last parsing call (0 if none)
    parsed    \* the value the last parsing call constructed (NoApInt if none)

vars == <<self, old, rhs, amt, op, result, prev, text, radix, parsed>>

\* No earlier call is chained to the last one.
NoCall == [op |-> "none", amt |-> 0, old |-> NoApInt, text |-> << >>]

\* Every value a constructor can build: any width, unused bits zero.
ConstructedValues == {ApIntOf(w, v) : w \in Widths, v \in 0 .. Pow2(MaxWidth) - 1} \cap
                     {ApIntOf(w, v % Pow2(w)) : w \in Widths, v \in 0 .. Pow2(MaxWidth) - 1}

\* Digits the right operand of an external operation is built from.
DigitSamples == {0, 1, Base \div 2, Base - 1}

\* Right operands of the receiver's width.
RhsSame(w) ==
    IF storage(w) = "Inl" THEN {ApIntOf(w, v) : v \in 0 .. Pow2(w) - 1}
    ELSE {clear_unused_bits([len |-> w, digits |-> ds]) :
              ds \in [1 .. required_blocks(w) -> DigitSamples]}

\* Widths of right operands whose width differs from the receiver's.
MismatchWidths == {1, BITS, BITS + 1, MaxWidth}

\* Right operands of another width.
RhsOther(w) == {zero(w2) : w2 \in MismatchWidths \ {w}} \cup
               {all_set(w2) : w2 \in MismatchWidths \ {w}}

RhsValues(w) == RhsSame(w) \cup RhsOther(w)

\* Inline right operands (SmallAPInt) of any inline width.
SmallRhsValues(w) == {r \in RhsValues(w) : storage(r.len) = "Inl"}

Amounts == 0 .. MaxWidth + ExtraAmount

Idle == op = "none"

Init ==
    /\ self \in ConstructedValues
    /\ old = NoApInt
    /\ rhs = NoApInt
    /\ amt = 0
    /\ op = "none"
    /\ result = NoResult
    /\ prev = NoCall
    /\ text = << >>
    /\ radix = 0
    /\ parsed = NoApInt

\* One call: the operation acts on the receiver and returns its Result.
Call(name, out, r, a) ==
    /\ op' = name
    /\ old' = self
    /\ rhs' = r
    /\ amt' = a
    /\ self' = out.self
    /\ result' = out.result
    /\ text' = << >>
    /\ radix' = 0
    /\ parsed' = NoApInt
    /\ UNCHANGED prev

-----------------------------------------------------------------------------
(* Operations                                                              *)

CheckedAddAssign ==
    /\ Idle
    /\ \E r \in RhsValues(self.len) :
           Call("checked_add_assign", checked_add_assign(self, r), r, 0)

CheckedSubAssign ==
    /\ Idle
    /\ \E r \in RhsValues(self.len) :
           Call("checked_sub_assign", checked_sub_assign(self, r), r, 0)

CheckedMulAssign ==
    /\ Idle
    /\ \E r \in RhsValues(self.len) :
           Call("checked_mul_assign", checked_mul_assign(self, r), r, 0)

CheckedUdivAssign ==
    /\ Idle
    /\ \E r \in RhsValues(self.len) :
           Call("checked_udiv_assign", checked_udiv_assign(self, r), r, 0)

CheckedSdivAssign ==
    /\ Idle
    /\ \E r \in RhsValues(self.len) :
           Call("checked_sdiv_assign", checked_sdiv_assign(self, r), r, 0)

CheckedUremAssign ==
    /\ Idle
    /\ \E r \in RhsValues(self.len) :
           Call("checked_urem_assign", checked_urem_assign(self, r), r, 0)

CheckedSremAssign ==
    /\ Idle
    /\ \E r \in RhsValues(self.len) :
           Call("checked_srem_assign", checked_srem_assign(self, r), r, 0)

Negate ==
    /\ Idle
    /\ Call("negate", negate(self), NoApInt, 0)

Bitnot ==
    /\ Idle
    /\ Call("bitnot", Outcome(bitnot(self), OkResult), NoApInt, 0)

CheckedShlAssign ==
    /\ Idle
    /\ \E a \in Amounts :
           Call("checked_shl_assign", checked_shl_assign(self, a), NoApInt, a)

CheckedLshrAssign ==
    /\ Idle
    /\ \E a \in Amounts :
           Call("checked_lshr_assign", checked_lshr_assign(self, a), NoApInt, a)

CheckedAshrAssign ==
    /\ Idle
    /\ \E a \in Amounts :
           Call("checked_ashr_assign", checked_ashr_assign(self, a), NoApInt, a)

SmallSet ==
    /\ Idle
    /\ storage(self.len) = "Inl"
    /\ \E n \in Amounts : Call("set", small_set(self, n), NoApInt, n)

SmallUnset ==
    /\ Idle
    /\ storage(self.len) = "Inl"
    /\ \E n \in Amounts : Call("unset", small_unset(self, n), NoApInt, n)

SmallFlip ==
    /\ Idle
    /\ storage(self.len) = "Inl"
    /\ \E n \in Amounts : Call("flip", small_flip(self, n), NoApInt, n)

SmallSetAll ==
    /\ Idle
    /\ storage(self.len) = "Inl"
    /\ Call("set_all", small_set_all(self), NoApInt, 0)

SmallFlipAll ==
    /\ Idle
    /\ storage(self.len) = "Inl"
    /\ Call("flip_all", small_flip_all(self), NoApInt, 0)

BitandInplace ==
    /\ Idle
    /\ storage(self.len) = "Inl"
    /\ \E r \in SmallRhsValues(self.len) :
           Call("bitand_inplace", bitand_inplace(self, r), r, 0)

BitorInplace ==
    /\ Idle
    /\ storage(self.len) = "Inl"
    /\ \E r \in SmallRhsValues(self.len) :
           Call("bitor_inplace", bitor_inplace(self, r), r, 0)

BitxorInplace ==
    /\ Idle
    /\ storage(self.len) = "Inl"
    /\ \E r \in SmallRhsValues(self.len) :
           Call("bitxor_inplace", bitxor_inplace(self, r), r, 0)

\* The caller takes the Result and goes on to its next call; a panic ends the program.
Return ==
    /\ ~Idle
    /\ result.kind # "Panic"
    /\ op' = "none"
    /\ old' = NoApInt
    /\ rhs' = NoApInt
    /\ amt' = 0
    /\ result' = NoResult
    /\ prev' = NoCall
    /\ text' = << >>
    /\ radix' = 0
    /\ parsed' = NoApInt
    /\ UNCHANGED self

\* The caller feeds the value of a successful call to a second call
\* (x.into_checked_shl(s)?.into_checked_lshr(s)); the first call is remembered.
Then ==
    /\ ~Idle
    /\ result.kind = "Ok"
    /\ prev = NoCall
    /\ prev' = [op |-> op, amt |-> amt, old |-> old, text |-> text]
    /\ op' = "none"
    /\ old' = NoApInt
    /\ rhs' = NoApInt
    /\ amt' = 0
    /\ result' = NoResult
    /\ text' = << >>
    /\ radix' = 0
    /\ parsed' = NoApInt
    /\ UNCHANGED self

Next ==
    \/ CheckedAddAssign
    \/ CheckedSubAssign
    \/ CheckedMulAssign
    \/ CheckedUdivAssign
    \/ CheckedSdivAssign
    \/ CheckedUremAssign
    \/ CheckedSremAssign
    \/ Negate
    \/ Bitnot
    \/ CheckedShlAssign
    \/ CheckedLshrAssign
    \/ CheckedAshrAssign
    \/ SmallSet
    \/ SmallUnset
    \/ SmallFlip
    \/ SmallSetAll
    \/ SmallFlipAll
    \/ BitandInplace
    \/ BitorInplace
    \/ BitxorInplace
    \/ Return

Spec == Init /\ [][Next]_vars

\* The mutating operations alone: arithmetic, negation, shifts and bit access.
NextMutators ==
    \/ CheckedAddAssign
    \/ CheckedSubAssign
    \/ CheckedMulAssign
    \/ CheckedUdivAssign
    \/ CheckedSdivAssign
    \/ CheckedUremAssign
    \/ CheckedSremAssign
    \/ Negate
    \/ Bitnot
    \/ CheckedShlAssign
    \/ CheckedLshrAssign
    \/ CheckedAshrAssign
    \/ SmallSet
    \/ SmallUnset
    \/ SmallFlip
    \/ SmallSetAll
    \/ SmallFlipAll
    \/ Return

SpecMutators == Init /\ [][NextMutators]_vars

\* Two chained calls of the unary operations: negation and the shifts.
NextChain ==
    \/ Negate
    \/ CheckedShlAssign
    \/ CheckedLshrAssign
    \/ Then
    \/ Return

SpecChain == Init /\ [][NextChain]_vars

-----------------------------------------------------------------------------
(* Radix construction                                                      *)

U8 == 0 .. MaxU8

InitRadix ==
    /\ self = NoApInt
    /\ old = NoApInt
    /\ rhs = NoApInt
    /\ amt = 0
    /\ op = "none"
    /\ result = NoResult
    /\ prev = NoCall
    /\ text = << >>
    /\ radix = 0
    /\ parsed = NoApInt

RadixNew ==
    /\ Idle
    /\ \E r \in U8 :
           Call("Radix::new", Outcome(self, radix_new(r)), NoApInt, r)

RadixFrom ==
    /\ Idle
    /\ \E r \in U8 :
           Call("Radix::from", Outcome(self, radix_from(r)), NoApInt, r)

NextRadix ==
    \/ RadixNew
    \/ RadixFrom
    \/ Return

SpecRadix == InitRadix /\ [][NextRadix]_vars

-----------------------------------------------------------------------------
(* The operations of the inline value                                      *)

SmallGet ==
    /\ Idle
    /\ storage(self.len) = "Inl"
    /\ \E n \in Amounts : Call("get", small_get(self, n), NoApInt, n)

SmallUlt ==
    /\ Idle
    /\ storage(self.len) = "Inl"
    /\ \E r \in SmallRhsValues(self.len) : Call("ult", small_ult(self, r), r, 0)

SmallSlt ==
    /\ Idle
    /\ storage(self.len) = "Inl"
    /\ \E r \in SmallRhsValues(self.len) : Call("slt", small_slt(self, r), r, 0)

\* Bit access and comparison of inline values, which a left shift may have
\* left with bits above their width.
NextSmall ==
    \/ SmallGet
    \/ SmallSet
    \/ SmallUnset
    \/ SmallFlip
    \/ SmallUlt
    \/ SmallSlt
    \/ CheckedShlAssign
    \/ Return

SpecSmall == Init /\ [][NextSmall]_vars

-----------------------------------------------------------------------------
(* Parsing and formatting                                                  *)

MaxLen == 4

\* Bytes of the inputs: '0', '1', '7', 'a', 'F', '_' and '/'.
InputBytes ==
    {ByteZero, ByteZero + 1, ByteNine - 2, ByteLowerA, ByteUpperA + 5,
     ByteUnderscore, ByteZero - 1}

RECURSIVE Strings(_)
Strings(n) ==
    IF n = 0 THEN {<< >>}
    ELSE LET shorter == Strings(n - 1)
         IN  shorter \cup {Append(t, b) : t \in {u \in shorter : Len(u) = n - 1},
                                          b \in InputBytes}

Inputs == Strings(MaxLen)

\* Radix arguments whose conversion does not depend on the scaled digit width:
\* those whose digits fit the digit of the model, and two beyond the logarithm
\* table, which never reach the digit arithmetic.
ParseRadices == {r \in U8 : r <= Base \/ r = RadixMAX + 1 \/ r = MaxU8}

ParseCall(r, input) ==
    LET out == from_str_radix(r, input)
    IN  /\ op' = "from_str_radix"
        /\ old' = NoApInt
        /\ rhs' = NoApInt
        /\ amt' = 0
        /\ result' = out.result
        /\ parsed' = out.value
        /\ text' = input
        /\ radix' = r
        /\ UNCHANGED <<self, prev>>

FromStrRadix ==
    /\ Idle
    /\ prev = NoCall
    /\ \E r \in ParseRadices, input \in Inputs : ParseCall(r, input)

NextParse ==
    \/ FromStrRadix
    \/ Return

SpecParse == InitRadix /\ [][NextParse]_vars

FormatCall(name, out) ==
    /\ op' = name
    /\ old' = self
    /\ rhs' = NoApInt
    /\ amt' = 0
    /\ result' = out.result
    /\ text' = out.text
    /\ radix' = 0
    /\ parsed' = NoApInt
    /\ UNCHANGED <<self, prev>>

FmtBinary == Idle /\ prev = NoCall /\ FormatCall("fmt::Binary", fmt_binary(self))

FmtOctal == Idle /\ prev = NoCall /\ FormatCall("fmt::Octal", fmt_octal(self))

FmtLowerHex == Idle /\ prev = NoCall /\ FormatCall("fmt::LowerHex", fmt_lower_hex(self))

\* The radix a formatter writes in.
FormatRadix(name) ==
    IF name = "fmt::Binary" THEN 2 ELSE IF name = "fmt::Octal" THEN 8 ELSE 16

FormatOps == {"fmt::Binary", "fmt::Octal", "fmt::LowerHex"}

\* ApInt::from_str_radix(r, format!("{:b}", v)): the text written by the
\* formatter is parsed in the formatter's radix.
ParseFormatted ==
    /\ Idle
    /\ prev.op \in FormatOps
    /\ ParseCall(FormatRadix(prev.op), prev.text)

NextRoundTrip ==
    \/ FmtBinary
    \/ FmtOctal
    \/ FmtLowerHex
    \/ Then
    \/ ParseFormatted
    \/ Return

SpecRoundTrip == Init /\ [][NextRoundTrip]_vars

FmtUpperHex == Idle /\ prev = NoCall /\ FormatCall("fmt::UpperHex", fmt_upper_hex(self))

\* Radix arguments of to_string_radix: the documented bounds, the radices of
\* the formatters, ten, and one beyond the documented range.
StringRadices == {RadixMIN, 8, 10, 16, RadixMAX, RadixMAX + 1}

ToStringRadix ==
    /\ Idle
    /\ prev = NoCall
    /\ \E r \in StringRadices :
           /\ op' = "to_string_radix"
           /\ old' = self
           /\ rhs' = NoApInt
           /\ amt' = 0
           /\ result' = to_string_radix(self, r).result
           /\ text' = to_string_radix(self, r).text
           /\ radix' = r
           /\ parsed' = NoApInt
           /\ UNCHANGED <<self, prev>>

NextFormat ==
    \/ FmtBinary
    \/ FmtOctal
    \/ FmtLowerHex
    \/ FmtUpperHex
    \/ ToStringRadix
    \/ Return

SpecFormat == Init /\ [][NextFormat]_vars

-----------------------------------------------------------------------------
(* The bit estimate of the radix conversion                                *)

MaxDigits == 9

\* A radix of the table and a number of digits.
InitEstimate ==
    /\ radix \in RadixMIN .. RadixMAX
    /\ amt \in 1 .. MaxDigits
    /\ self = NoApInt
    /\ old = NoApInt
    /\ rhs = NoApInt
    /\ op = "none"
    /\ result = NoResult
    /\ prev = NoCall
    /\ text = << >>
    /\ parsed = NoApInt

BitEstimate ==
    /\ Idle
    /\ op' = "bit_estimate"
    /\ result' = [OkResult EXCEPT !.n1 = bit_estimate(radix, amt)]
    /\ UNCHANGED <<self, old, rhs, amt, prev, text, radix, parsed>>

NextEstimate == BitEstimate

SpecEstimate == InitEstimate /\ [][NextEstimate]_vars

-----------------------------------------------------------------------------
(* Properties                                                              *)

\* The unused bits of the most significant digit are zero.
UnusedBitsZero(x) ==
    excess_bits(x.len) # 0 =>
        most_significant_digit(x) < Pow2(excess_bits(x.len))

ArithOps == {"checked_add_assign", "checked_sub_assign", "checked_mul_assign",
             "checked_udiv_assign", "checked_sdiv_assign",
             "checked_urem_assign", "checked_srem_assign"}

DivOps == {"checked_udiv_assign", "checked_sdiv_assign",
           "checked_urem_assign", "checked_srem_assign"}

BitwiseOps == {"bitand_inplace", "bitor_inplace", "bitxor_inplace"}

\* The DivOp an operation reports on a zero divisor.
DivOpOf(name) ==
    CASE name = "checked_udiv_assign" -> "UnsignedDiv"
      [] name = "checked_sdiv_assign" -> "SignedDiv"
      [] name = "checked_urem_assign" -> "UnsignedRem"
      [] name = "checked_srem_assign" -> "SignedRem"
      [] OTHER -> ""

\* The two's-complement reading of the low w bits of v.
SignedOf(v, w) ==
    IF (v % Pow2(w)) >= Pow2(w - 1) THEN (v % Pow2(w)) - Pow2(w) ELSE v % Pow2(w)

\* n reduced into 0 .. 2^w - 1.
ModPow2(n, w) == ((n % Pow2(w)) + Pow2(w)) % Pow2(w)

\* Quotient rounded toward zero.
TruncDiv(a, b) ==
    IF (a < 0) = (b < 0) THEN Abs(a) \div Abs(b) ELSE -(Abs(a) \div Abs(b))

\* Quotient rounded toward minus infinity, for b > 0.
FloorDiv(a, b) ==
    IF a >= 0 THEN a \div b ELSE -((Abs(a) + b - 1) \div b)

\* C1: after any sequence of mutating operations on a constructed value the
\* bits of the most significant digit at positions >= excess_bits(width) are zero.
C1_UnusedBitsInvariant == UnusedBitsZero(self)

\* C2: a binary operation on operands of different widths returns
\* UnmatchingBitWidths(lhs_width, rhs_width) and leaves the receiver unchanged,
\* whatever the right operand, zero included.
C2_WidthMismatchRejected ==
    (op \in ArithOps \cup BitwiseOps /\ old.len # rhs.len) =>
        /\ result = unmatching_bitwidths(old.len, rhs.len)
        /\ self = old

\* C3: an arithmetic operation on operands of equal width returns Ok, or
\* DivisionByZero for a division or remainder; it never panics.
C3_ArithmeticNeverPanics ==
    (op \in ArithOps /\ old.len = rhs.len) =>
        \/ result.kind = "Ok"
        \/ result.kind = "DivisionByZero" /\ op \in DivOps

\* C4: Radix::new(r) returns Ok(Radix(r)) iff 2 <= r <= 36 and
\* InvalidRadix(r) for every other u8.
C4_RadixNewRange ==
    op = "Radix::new" =>
        IF 2 <= amt /\ amt <= 36
        THEN result.kind = "Ok" /\ result.n1 = amt
        ELSE result = invalid_radix(amt)

\* C5: with equal widths and a zero divisor the four division and remainder
\* operations return DivisionByZero carrying their own DivOp and, as dividend,
\* the receiver as it was at the call.
C5_DivisionByZeroReport ==
    (op \in DivOps /\ old.len = rhs.len /\ Val(rhs.digits) = 0) =>
        /\ result.kind = "DivisionByZero"
        /\ result.divop = DivOpOf(op)
        /\ result.dividend = old

C5_Witness ==
    /\ op = "checked_srem_assign"
    /\ old.len = rhs.len
    /\ storage(old.len) = "Ext"
    /\ Val(rhs.digits) = 0
    /\ Val(old.digits) = Pow2(old.len) - 1
    /\ result.kind = "DivisionByZero"

\* C6: on operands a, b of equal width w, checked_add_assign leaves
\* (a + b) mod 2^w and checked_sub_assign leaves (a - b) mod 2^w, inline and
\* external alike.
C6_AddSubModular ==
    /\ (op = "checked_add_assign" /\ old.len = rhs.len) =>
           /\ result.kind = "Ok"
           /\ self = ApIntOf(old.len,
                             ModPow2(Val(old.digits) + Val(rhs.digits), old.len))
    /\ (op = "checked_sub_assign" /\ old.len = rhs.len) =>
           /\ result.kind = "Ok"
           /\ self = ApIntOf(old.len,
                             ModPow2(Val(old.digits) - Val(rhs.digits), old.len))

\* An external addition whose carry crosses a digit and leaves the top digit.
C6_Witness ==
    /\ op = "checked_add_assign"
    /\ old.len = rhs.len
    /\ Len(old.digits) = 3
    /\ old.digits[1] + rhs.digits[1] >= Base
    /\ Val(old.digits) + Val(rhs.digits) >= Pow2(old.len)
    /\ result.kind = "Ok"

\* C7: on operands a, b of equal width w, checked_mul_assign leaves
\* (a * b) mod 2^w, for inline and for external widths.
C7_MulModular ==
    (op = "checked_mul_assign" /\ old.len = rhs.len /\ UnusedBitsZero(old)) =>
        /\ result.kind = "Ok"
        /\ self = ApIntOf(old.len,
                          ModPow2(Val(old.digits) * Val(rhs.digits), old.len))

\* C8: on operands of equal width w with a non-zero divisor, read as signed
\* integers sa, sb, checked_sdiv_assign leaves trunc(sa / sb) mod 2^w and
\* checked_srem_assign leaves (sa - sb * trunc(sa / sb)) mod 2^w, for every width.
C8_SignedDivRem ==
    LET sa == SignedOf(Val(old.digits), old.len)
        sb == SignedOf(Val(rhs.digits), old.len)
    IN  /\ (op = "checked_sdiv_assign" /\ old.len = rhs.len
              /\ Val(rhs.digits) # 0 /\ UnusedBitsZero(old)) =>
               /\ result.kind = "Ok"
               /\ self = ApIntOf(old.len, ModPow2(TruncDiv(sa, sb), old.len))
        /\ (op = "checked_srem_assign" /\ old.len = rhs.len
              /\ Val(rhs.digits) # 0 /\ UnusedBitsZero(old)) =>
               /\ result.kind = "Ok"
               /\ self = ApIntOf(old.len,
                                 ModPow2(sa - sb * TruncDiv(sa, sb), old.len))

\* C9: checked_shl_assign(s) with s < w leaves the width-w value
\* (a * 2^s) mod 2^w, for inline and external widths.
C9_ShlValue ==
    (op = "checked_shl_assign" /\ amt < old.len /\ UnusedBitsZero(old)) =>
        /\ result.kind = "Ok"
        /\ self = ApIntOf(old.len, ModPow2(Val(old.digits) * Pow2(amt), old.len))

\* C10: checked_ashr_assign(s) with s < w leaves floor(signed(a) / 2^s)
\* mod 2^w: the bits move down by s and the sign bit (position w - 1) fills the top.
C10_AshrValue ==
    (op = "checked_ashr_assign" /\ amt < old.len /\ UnusedBitsZero(old)) =>
        /\ result.kind = "Ok"
        /\ self = ApIntOf(old.len,
                          ModPow2(FloorDiv(SignedOf(Val(old.digits), old.len),
                                           Pow2(amt)), old.len))

\* C11: checked_shl_assign(s) followed by checked_lshr_assign(s), s < w,
\* succeeds and leaves a with its top s bits zero and its lower bits unchanged.
C11_ShlThenLshr ==
    (op = "checked_lshr_assign" /\ prev.op = "checked_shl_assign"
       /\ prev.amt = amt /\ amt < self.len /\ UnusedBitsZero(prev.old)) =>
        /\ result.kind = "Ok"
        /\ self = ApIntOf(self.len, Val(prev.old.digits) % Pow2(self.len - amt))

ShiftOps == {"checked_shl_assign", "checked_lshr_assign", "checked_ashr_assign"}

\* C12: the three shifts reject every amount s >= w with InvalidShiftAmount
\* and, with s = 0, succeed and leave the value unchanged.
C12_ShiftAmountRange ==
    /\ (op \in ShiftOps /\ amt >= old.len) => result.kind = "InvalidShiftAmount"
    /\ (op \in ShiftOps /\ amt = 0) => (result.kind = "Ok" /\ self = old)

\* C13: negate leaves (2^w - a) mod 2^w at every width; negating twice gives a back.
C13_NegateTwosComplement ==
    /\ op = "negate" =>
           /\ result.kind = "Ok"
           /\ self = ApIntOf(old.len, ModPow2(0 - Val(old.digits), old.len))
    /\ (op = "negate" /\ prev.op = "negate") =>
           self = ApIntOf(old.len, ModPow2(Val(prev.old.digits), old.len))

\* The second of two chained negations of an external signed minimum.
C13_Witness ==
    /\ op = "negate"
    /\ prev.op = "negate"
    /\ storage(self.len) = "Ext"
    /\ Val(prev.old.digits) = Pow2(self.len - 1)
    /\ self = prev.old
    /\ self = old

\* C14: checked_sub(a, b) equals checked_add(a, negate(b)) at every width.
C14_SubIsAddNegate ==
    (op = "checked_sub_assign" /\ old.len = rhs.len) =>
        /\ result = checked_add_assign(old, negate(rhs).self).result
        /\ self = checked_add_assign(old, negate(rhs).self).self

\* An external subtraction whose borrow crosses a digit and leaves the top digit.
C14_Witness ==
    /\ op = "checked_sub_assign"
    /\ old.len = rhs.len
    /\ Len(old.digits) = 3
    /\ old.digits[1] < rhs.digits[1]
    /\ Val(old.digits) < Val(rhs.digits)
    /\ result.kind = "Ok"

\* C15: checked_add(a, zero) = a, checked_mul(a, one) = a and
\* checked_udiv(a, one) = a, each returning Ok, at every width.
C15_Identities ==
    /\ (op = "checked_add_assign" /\ rhs = zero(old.len) /\ UnusedBitsZero(old)) =>
           (result.kind = "Ok" /\ self = old)
    /\ (op = "checked_mul_assign" /\ rhs = one(old.len) /\ UnusedBitsZero(old)) =>
           (result.kind = "Ok" /\ self = old)
    /\ (op = "checked_udiv_assign" /\ rhs = one(old.len) /\ UnusedBitsZero(old)) =>
           (result.kind = "Ok" /\ self = old)

\* The input passes every rejection rule of the parser for radix r.
ValidInput(r, input) ==
    /\ input # << >>
    /\ Head(input) # ByteUnderscore
    /\ input[Len(input)] # ByteUnderscore
    /\ \A i \in 1 .. Len(input) :
           input[i] = ByteUnderscore \/ byte_digit(input[i]) < r

\* The number a string denotes in radix r, most significant character first,
\* separators ignored.
RECURSIVE Numeral(_, _)
Numeral(r, input) ==
    IF input = << >> THEN 0
    ELSE LET front == SubSeq(input, 1, Len(input) - 1)
             last  == input[Len(input)]
         IN  IF last = ByteUnderscore THEN Numeral(r, front)
             ELSE Numeral(r, front) * r + byte_digit(last)

DocumentedRadices == RadixMIN .. RadixMAX

\* C16: for radices 2, 8 and 16 formatting succeeds and parsing the formatted
\* text returns Ok of the formatted value, same width and same digits.
C16_ParseInvertsFormat ==
    /\ op \in FormatOps => result.kind = "Ok"
    /\ (op = "from_str_radix" /\ prev.op \in FormatOps) =>
           (result.kind = "Ok" /\ parsed = prev.old)

\* C17: for a power-of-two radix and a valid input, from_str_radix returns a
\* value whose unsigned value is the number the digit characters denote.
C17_PowerOfTwoRadixValue ==
    (op = "from_str_radix" /\ radix \in DocumentedRadices
       /\ is_power_of_two(radix) /\ ValidInput(radix, text)) =>
        (result.kind = "Ok" /\ Val(parsed.digits) = Numeral(radix, text))

\* C18: for a radix that is no power of two and a valid input of any length,
\* from_str_radix returns the value the digit string denotes in that radix.
C18_GeneralRadixValue ==
    (op = "from_str_radix" /\ radix \in DocumentedRadices
       /\ ~is_power_of_two(radix) /\ ValidInput(radix, text)) =>
        (result.kind = "Ok" /\ Val(parsed.digits) = Numeral(radix, text))

\* C19: when the parsed value needs more bits than the width the caller wants,
\* from_str_radix fails with ValueExceedsBitWidth.
C19_ValueExceedsBitWidth ==
    (op = "from_str_radix" /\ radix \in DocumentedRadices /\ ValidInput(radix, text)
       /\ \E target_width \in Widths : Numeral(radix, text) >= Pow2(target_width)) =>
        result.kind = "ValueExceedsBitWidth"

\* C20: an input denoting a value below 2^B, with or without leading zeros,
\* parses to the one-digit value of width B holding that number.
C20_SmallestWidth ==
    (op = "from_str_radix" /\ radix \in DocumentedRadices /\ ValidInput(radix, text)
       /\ Numeral(radix, text) < Base) =>
        (result.kind = "Ok" /\ parsed = ApIntOf(BITS, Numeral(radix, text)))

\* C21: for every radix the rejection rules are applied in order: the empty
\* input, then a leading underscore, then a trailing underscore, each reported
\* as InvalidStringRepr with its annotation; only then are characters validated.
C21_RejectionOrder ==
    (op = "from_str_radix" /\ radix \in DocumentedRadices) =>
        IF text = << >>
        THEN result = invalid_string_repr("empty")
        ELSE IF Head(text) = ByteUnderscore
        THEN result = invalid_string_repr("starts with an underscore")
        ELSE IF text[Len(text)] = ByteUnderscore
        THEN result = invalid_string_repr("ends with an underscore")
        ELSE result.kind \in {"Ok", "InvalidCharInStringRepr"}

\* The positions of the bytes that are neither a separator nor a digit of radix r.
InvalidPositions(r, input) ==
    {i \in 1 .. Len(input) :
        input[i] # ByteUnderscore /\ ~(byte_digit(input[i]) < r)}

\* C22: a non-empty input without leading or trailing underscore fails with
\* InvalidCharInStringRepr, naming the first byte that is no digit of the radix
\* and its index, iff there is such a byte; otherwise parsing returns Ok.
C22_InvalidCharReport ==
    (op = "from_str_radix" /\ radix \in DocumentedRadices /\ text # << >>
       /\ Head(text) # ByteUnderscore /\ text[Len(text)] # ByteUnderscore) =>
        LET bad == InvalidPositions(radix, text)
        IN  IF bad # {}
            THEN LET first == CHOOSE i \in bad : \A j \in bad : i <= j
                 IN  result = invalid_char_in_string_repr(first - 1, text[first])
            ELSE result.kind = "Ok"

AllFormatOps ==
    {"fmt::Binary", "fmt::Octal", "fmt::LowerHex", "fmt::UpperHex", "to_string_radix"}

\* C23: a value equal to zero, of any width, formats as exactly "0" through
\* Binary, Octal, LowerHex, UpperHex and to_string_radix in every radix.
C23_ZeroFormatsAsZero ==
    (op \in AllFormatOps /\ is_zero(old)) =>
        (result.kind = "Ok" /\ text = <<ByteZero>>)

\* The bits of one character of a formatter, and the characters it may write.
FormatBits(name) == IF name = "fmt::Binary" THEN 1 ELSE 4

FormatBytes(name) ==
    IF name = "fmt::Binary" THEN {ByteZero, ByteZero + 1}
    ELSE (ByteZero .. ByteNine) \cup
         (IF name = "fmt::UpperHex" THEN ByteUpperA .. ByteUpperA + 5
                                    ELSE ByteLowerA .. ByteLowerA + 5)

\* The characters one whole digit takes: B / bits_per_digit.
CharsPerDigit(bits) == (BITS + bits - 1) \div bits

\* The index of the most significant non-zero digit of a non-zero value.
TopIndex(x) ==
    CHOOSE i \in 1 .. Len(x.digits) :
        x.digits[i] # 0 /\ \A j \in i + 1 .. Len(x.digits) : x.digits[j] = 0

\* C24: for a non-zero value Binary, LowerHex and UpperHex succeed and write
\* the numeral of the value: the first character is not '0', all-zero high
\* digits are skipped, the most significant non-zero digit comes first and each
\* digit below it takes exactly B / bits_per_digit characters, zero-padded.
C24_CanonicalNumeral ==
    (op \in {"fmt::Binary", "fmt::LowerHex", "fmt::UpperHex"} /\ ~is_zero(old)) =>
        LET bits == FormatBits(op)
            r    == Pow2(bits)
            cpd  == CharsPerDigit(bits)
            top  == TopIndex(old)
            n    == Len(text)
        IN  /\ result.kind = "Ok"
            /\ n > (top - 1) * cpd
            /\ \A k \in 1 .. n : text[k] \in FormatBytes(op)
            /\ text[1] # ByteZero
            /\ Numeral(r, SubSeq(text, 1, n - (top - 1) * cpd)) = old.digits[top]
            /\ \A i \in 1 .. top - 1 :
                   Numeral(r, SubSeq(text, n - i * cpd + 1, n - (i - 1) * cpd))
                       = old.digits[i]
            /\ (BITS % bits = 0) => Numeral(r, text) = Val(old.digits)

\* The binary numeral of a three-digit value whose top digit is zero and whose
\* lowest digit needs padding.
C24_Witness ==
    /\ op = "fmt::Binary"
    /\ Len(old.digits) = 3
    /\ old.digits[3] = 0
    /\ old.digits[2] > 1
    /\ old.digits[1] = 1
    /\ Len(text) > BITS + 1
    /\ text[Len(text)] = ByteZero + 1
    /\ text[Len(text) - 1] = ByteZero

\* Bit pos of the single digit of an inline value.
BitOf(x, pos) == (x.digits[1] \div Pow2(pos)) % 2

\* C25: get/set/unset/flip(pos) with pos >= w fail with InvalidBitAccess naming
\* pos and w and change nothing; with pos < w, set/unset/flip make bit pos
\* 1 / 0 / its complement and leave every other bit and the width unchanged,
\* and get returns bit pos without modifying the value.
C25_BitAccess ==
    (op \in {"get", "set", "unset", "flip"}) =>
        IF amt >= old.len
        THEN result = invalid_bit_access(amt, old.len) /\ self = old
        ELSE /\ result.kind = "Ok"
             /\ self.len = old.len
             /\ Len(self.digits) = 1
             /\ self.digits[1] < Base
             /\ \A pos \in 0 .. BITS - 1 :
                    pos # amt => BitOf(self, pos) = BitOf(old, pos)
             /\ op = "get" => (self = old /\ result.n1 = BitOf(old, amt))
             /\ op = "set" => BitOf(self, amt) = 1
             /\ op = "unset" => BitOf(self, amt) = 0
             /\ op = "flip" => BitOf(self, amt) = 1 - BitOf(old, amt)

\* A flip of the top bit of a full-digit value, which was set.
C25_Witness ==
    /\ op = "flip"
    /\ old.len = BITS
    /\ amt = BITS - 1
    /\ BitOf(old, amt) = 1
    /\ self.digits[1] = old.digits[1] - Pow2(amt)
    /\ result.kind = "Ok"

\* C30: for inline values of equal width satisfying the unused-bits invariant,
\* ult is true iff a < b as unsigned integers and slt is true iff a < b as
\* signed integers of that width; with different widths both return
\* UnmatchingBitWidths.
C30_Comparisons ==
    (op \in {"ult", "slt"}) =>
        IF old.len # rhs.len
        THEN result = unmatching_bitwidths(old.len, rhs.len)
        ELSE (UnusedBitsZero(old) /\ UnusedBitsZero(rhs)) =>
                 /\ result.kind = "Ok"
                 /\ op = "ult" =>
                        (result.n1 = 1 <=> Val(old.digits) < Val(rhs.digits))
                 /\ op = "slt" =>
                        (result.n1 = 1 <=> SignedOf(Val(old.digits), old.len)
                                             < SignedOf(Val(rhs.digits), rhs.len))

\* A signed comparison, at a width below the digit width, of a negative value
\* with a positive one that is smaller as an unsigned integer.
C30_Witness ==
    /\ op = "slt"
    /\ old.len = rhs.len
    /\ old.len < BITS
    /\ UnusedBitsZero(old)
    /\ BitOf(old, old.len - 1) = 1
    /\ BitOf(rhs, rhs.len - 1) = 0
    /\ Val(rhs.digits) > 0
    /\ result.n1 = 1

CheckedOps == ArithOps \cup ShiftOps \cup BitwiseOps \cup {"set", "unset", "flip"}

ErrorKinds ==
    {"DivisionByZero", "InvalidShiftAmount", "InvalidBitAccess", "UnmatchingBitWidths"}

\* C27: whenever a checked in-place operation returns an error, the receiver
\* is bit for bit the value it was before the call.
C27_ErrorLeavesReceiver ==
    (op \in CheckedOps /\ result.kind \in ErrorKinds) => self = old

\* A right shift of a non-zero value by its width, rejected.
C27_Witness ==
    /\ op = "checked_lshr_assign"
    /\ amt = old.len
    /\ result.kind = "InvalidShiftAmount"
    /\ ~is_zero(old)
    /\ self = old

\* C28: for equal-width a, b with b # 0, q = udiv(a, b) and r = urem(a, b)
\* satisfy q * b + r = a with r < b, and q = sdiv(a, b), r = srem(a, b) satisfy
\* (q * b + r) mod 2^w = a with |signed(r)| < |signed(b)|.
C28_QuotientRemainder ==
    /\ (op = "checked_udiv_assign" /\ old.len = rhs.len /\ ~is_zero(rhs)
          /\ UnusedBitsZero(old) /\ UnusedBitsZero(rhs)) =>
           LET rem == checked_urem_assign(old, rhs)
               q   == Val(self.digits)
               r   == Val(rem.self.digits)
               b   == Val(rhs.digits)
           IN  /\ result.kind = "Ok"
               /\ rem.result.kind = "Ok"
               /\ q * b + r = Val(old.digits)
               /\ r < b
    /\ (op = "checked_sdiv_assign" /\ old.len = rhs.len /\ ~is_zero(rhs)
          /\ UnusedBitsZero(old) /\ UnusedBitsZero(rhs)) =>
           LET rem == checked_srem_assign(old, rhs)
               w   == old.len
               q   == SignedOf(Val(self.digits), w)
               r   == SignedOf(Val(rem.self.digits), w)
               b   == SignedOf(Val(rhs.digits), w)
           IN  /\ result.kind = "Ok"
               /\ rem.result.kind = "Ok"
               /\ ModPow2(q * b + r, w) = Val(old.digits)
               /\ Abs(r) < Abs(b)

\* Natural numbers beyond the machine word, as limbs of 14 bits, least
\* significant first.
Limb == Pow2(14)

RECURSIVE LimbsTimes(_, _, _)
LimbsTimes(ds, k, carry) ==
    IF ds = << >> THEN (IF carry = 0 THEN << >> ELSE <<carry>>)
    ELSE LET t == Head(ds) * k + carry
         IN  <<t % Limb>> \o LimbsTimes(Tail(ds), k, t \div Limb)

RECURSIVE LimbsPower(_, _)
LimbsPower(r, n) == IF n = 0 THEN <<1>> ELSE LimbsTimes(LimbsPower(r, n - 1), r, 0)

\* ds - 1 for ds > 0, without leading zero limbs.
RECURSIVE LimbsPred(_)
LimbsPred(ds) ==
    IF Head(ds) > 0
    THEN (IF Len(ds) = 1 /\ Head(ds) = 1 THEN << >> ELSE <<Head(ds) - 1>> \o Tail(ds))
    ELSE <<Limb - 1>> \o LimbsPred(Tail(ds))

RECURSIVE BitLength(_)
BitLength(n) == IF n = 0 THEN 0 ELSE 1 + BitLength(n \div 2)

\* The number of bits needed to represent the number ds.
LimbsBits(ds) ==
    IF ds = << >> THEN 0 ELSE 14 * (Len(ds) - 1) + BitLength(ds[Len(ds)])

\* Bounds on a positive real x: m * 2^(f - 28) with 2^28 <= m <= 2^29.
Unit == Limb * Limb

\* floor(m * m / 2^28) and whether the division is exact, on 14-bit halves.
SquareParts(m) ==
    LET a   == m \div Limb
        b   == m % Limb
        mid == 2 * a * b + (b * b) \div Limb
    IN  [q |-> a * a + mid \div Limb,
         exact |-> (b * b) % Limb = 0 /\ mid % Limb = 0]

\* A lower bound of x * x from a lower bound of x.
LowerSquare(x) ==
    LET q == SquareParts(x.m).q
    IN  IF q >= 2 * Unit THEN [m |-> q \div 2, f |-> 2 * x.f + 1]
        ELSE [m |-> q, f |-> 2 * x.f]

\* An upper bound of x * x from an upper bound of x.
UpperSquare(x) ==
    LET sp == SquareParts(x.m)
        q  == IF sp.exact THEN sp.q ELSE sp.q + 1
    IN  IF q > 2 * Unit THEN [m |-> (q + 1) \div 2, f |-> 2 * x.f + 1]
        ELSE [m |-> q, f |-> 2 * x.f]

RECURSIVE LowerPower(_, _)
LowerPower(x, k) == IF k = 0 THEN x ELSE LowerPower(LowerSquare(x), k - 1)

RECURSIVE UpperPower(_, _)
UpperPower(x, k) == IF k = 0 THEN x ELSE UpperPower(UpperSquare(x), k - 1)

\* r itself, exactly.
RadixBound(r) ==
    LET f == BitLength(r) - 1 IN [m |-> r * Pow2(28 - f), f |-> f]

\* e = ceil(log2(r) * 2^13), that is 2^(e-1) < r^(2^13) <= 2^e, decided from
\* bounds on r^(2^13) obtained by squaring 13 times.
IsCeilLog2I3F13(e, r) ==
    LET lo == LowerPower(RadixBound(r), 13)
        hi == UpperPower(RadixBound(r), 13)
    IN  /\ lo.f >= e \/ (lo.f = e - 1 /\ lo.m > Unit)
        /\ hi.f + 1 <= e \/ (hi.f = e /\ hi.m = Unit)

\* C29: for every radix r in 2..=36 and every length L >= 1 the bit estimate
\* (LB_2_36_I3F13[r-2] * (L+1)) >> 13 is at least the number of bits of
\* r^L - 1, and the table entry of r is ceil(log2(r) * 2^13).
C29_BitBudget ==
    op = "bit_estimate" =>
        /\ result.n1 >= LimbsBits(LimbsPred(LimbsPower(radix, amt)))
        /\ IsCeilLog2I3F13(LB_2_36_I3F13[radix - 2 + 1], radix)

\* The estimate for the longest string of the largest radix, whose value is
\* beyond a 32-bit word.
C29_Witness ==
    /\ op = "bit_estimate"
    /\ radix = RadixMAX
    /\ amt = MaxDigits
    /\ LimbsBits(LimbsPred(LimbsPower(radix, amt))) > 32
    /\ result.n1 = bit_estimate(RadixMAX, MaxDigits)

====
